---- MODULE Spec2Model ----
(***************************************************************************)
(* Model of the RAG ingestion driver (src/lib/ingestion.ts) and of the     *)
(* chat route handler (src/unnamed/part_000).                              *)
(*                                                                         *)
(* Strings are TLA+ strings, which TLC treats as sequences of characters   *)
(* (Len, SubSeq, \o), so that endsWith and the template `${fileName}-${i}` *)
(* are computed as the code computes them.                                 *)
(*                                                                         *)
(* External collaborators (file system, pdf-parse, the text splitter, the  *)
(* embedding API, the Chroma client, runRAGChat) are modelled by their     *)
(* call contract, with their outcome chosen nondeterministically.          *)
(***************************************************************************)
EXTENDS Integers, Sequences, FiniteSets, TLC

VARIABLES
    dir,            \* the documents directory: file name -> Document
    store,          \* the Chroma collection: a set of CollectionRecords
    pc,             \* position of ingestDocuments
    files,          \* const files (line 100)
    idx,            \* position of `for (const fileName of files)`, 1-based
    chunks,         \* const chunks (line 118) = allChunks of generateEmbeddings
    i,              \* loop variable i of generateEmbeddings (line 62)
    allEmbeddings,  \* let allEmbeddings (line 60)
    inFlight,       \* embedContent requests awaiting their response
    chunkCount,     \* let chunkCount (line 105)
    result,         \* <<>> while running, <<r>> once ingestDocuments returned r
    reads,          \* history: files handed to extractTextFromPdf in this run
    embedCalls,     \* history: embedContent calls answered in this run
    upserts,        \* history: collection.upsert calls issued in this run
    failure,        \* history: which call made this run fail ("none" if none)
    storeAtStart,   \* history: the store when this run started
    prevOk,         \* history: previous run succeeded and dir is unchanged since
    prevIds,        \* history: ids upserted by that previous run
    chatPc,         \* position of the POST handler
    body,           \* the request body being handled
    query,          \* const { query } (part_000 line 7)
    ragCalls,       \* runRAGChat invocations made for the current request
    responses,      \* responses sent for the current request
    served          \* requests answered so far

vars == <<dir, store, pc, files, idx, chunks, i, allEmbeddings, inFlight,
          chunkCount, result, reads, embedCalls, upserts, failure,
          storeAtStart, prevOk, prevIds,
          chatPc, body, query, ragCalls, responses, served>>

ingestVars == <<dir, store, pc, files, idx, chunks, i, allEmbeddings, inFlight,
                chunkCount, result, reads, embedCalls, upserts, failure,
                storeAtStart, prevOk, prevIds>>

chatVars == <<chatPc, body, query, ragCalls, responses, served>>

----------------------------------------------------------------------------
(* Bounds of the model *)

\* number of chunks of the short document
ShortLen == 2
\* number of chunks of the long document (more than one embedding batch)
LongLen == 101
\* largest chunk count fed to generateEmbeddings in SpecEmbed
MaxChunks == 201
\* number of chat requests served before the chat model stops
MaxRequests == 3

----------------------------------------------------------------------------
(* Program constants *)

BATCH_SIZE == 100

DOCUMENTS_DIR == "documents"
CHROMA_HOST == "http://localhost:8000"

----------------------------------------------------------------------------
(* String helpers *)

Min(a, b) == IF a < b THEN a ELSE b

DigitChars == <<"0", "1", "2", "3", "4", "5", "6", "7", "8", "9">>

\* Number -> decimal string, as template interpolation `${i}` renders it
RECURSIVE ToDecimal(_)
ToDecimal(n) ==
    IF n < 10 THEN DigitChars[n + 1]
    ELSE ToDecimal(n \div 10) \o DigitChars[(n % 10) + 1]

\* String.prototype.endsWith
EndsWith(s, suffix) ==
    /\ Len(s) >= Len(suffix)
    /\ SubSeq(s, Len(s) - Len(suffix) + 1, Len(s)) = suffix

PdfExt == ".pdf"

\* A text (the content of a PDF) is a sequence of tokens: words, and runs of
\* white space, each token a string.
Space == " "

\* String.prototype.trim: strip leading and trailing white space
TrimLeft(s) ==
    IF \A k \in 1..Len(s) : s[k] = Space THEN <<>>
    ELSE LET first == CHOOSE k \in 1..Len(s) :
                         s[k] # Space /\ \A m \in 1..(k - 1) : s[m] = Space
         IN  SubSeq(s, first, Len(s))

TrimRight(s) ==
    IF \A k \in 1..Len(s) : s[k] = Space THEN <<>>
    ELSE LET last == CHOOSE k \in 1..Len(s) :
                        s[k] # Space /\ \A m \in (k + 1)..Len(s) : s[m] = Space
         IN  SubSeq(s, 1, last)

Trim(s) == TrimRight(TrimLeft(s))

----------------------------------------------------------------------------
(* The documents directory *)

NameA == "a.pdf"
NameB == "b.pdf"
NameT == "pdf.txt"
Names == {NameA, NameB, NameT}

\* A Document is the opaque content of a file; `n` is the number of words
\* pdf-parse finds in it.
Absent  == [kind |-> "absent",  n |-> 0]
Corrupt == [kind |-> "corrupt", n |-> 0]   \* pdf-parse raises on it
Blank   == [kind |-> "blank",   n |-> 0]   \* scanned PDF: white space only
Dropped == [kind |-> "dropped", n |-> 0]   \* text the splitter discards
WordDoc(n) == [kind |-> "words", n |-> n]  \* n words of text

Documents == {Absent, Corrupt, Blank, Dropped, WordDoc(ShortLen), WordDoc(LongLen)}

\* the k-th word of a document of n words
WordOf(n, k) == ToDecimal(n) \o "w" \o ToDecimal(k)

\* a token that stands for text the splitter discards whole
Discarded == "_"

\* data.text of pdf-parse for a parseable document (before trim)
RawText(doc) ==
    CASE doc.kind = "blank"   -> <<Space, Space>>
      [] doc.kind = "dropped" -> <<Space, Discarded, Space>>
      [] doc.kind = "words"   ->
            [k \in 1..(2 * doc.n + 1) |->
                IF k % 2 = 1 THEN Space ELSE WordOf(doc.n, k \div 2)]
      [] OTHER -> <<>>

----------------------------------------------------------------------------
(* External collaborators, by contract *)

\* splitter.splitText: one chunk per word (the chunk size of the model is one
\* word), in order; white space separates, and Discarded yields nothing.
splitText(text) ==
    SelectSeq(text, LAMBDA w : w # Space /\ w # Discarded)

CharCode(c) ==
    CASE c = "w" -> 10
      [] \E d \in 1..10 : DigitChars[d] = c -> (CHOOSE d \in 1..10 : DigitChars[d] = c) - 1
      [] OTHER -> 11

RECURSIVE Checksum(_)
Checksum(text) ==
    IF Len(text) = 0 THEN 0
    ELSE (Checksum(SubSeq(text, 1, Len(text) - 1)) * 13
          + CharCode(SubSeq(text, Len(text), Len(text)))) % 9973

\* the embedding model: a fixed function from a text to a vector
EmbedVec(text) == <<Len(text), Checksum(text)>>

\* what embedContent may answer to a batch: it raises, or answers without an
\* embeddings field, or with a list of vectors: one per text in input order
\* (the contract), or one short, or one too many, or none.
EmbedResponses(batch) ==
    LET full == [k \in 1..Len(batch) |-> [values |-> EmbedVec(batch[k])]]
    IN  { [raised |-> TRUE,  hasEmbeddings |-> FALSE, embeddings |-> <<>>],
          [raised |-> FALSE, hasEmbeddings |-> FALSE, embeddings |-> <<>>],
          [raised |-> FALSE, hasEmbeddings |-> TRUE,  embeddings |-> <<>>],
          [raised |-> FALSE, hasEmbeddings |-> TRUE,  embeddings |-> full],
          [raised |-> FALSE, hasEmbeddings |-> TRUE,
           embeddings |-> SubSeq(full, 1, Len(full) - 1)],
          [raised |-> FALSE, hasEmbeddings |-> TRUE,
           embeddings |-> Append(full, [values |-> <<0, 0>>])] }

\* messages of errors raised by the collaborators
MsgReaddir  == "ENOENT: no such file or directory, scandir 'documents'"
MsgReadFile == "EACCES: permission denied, open"
MsgPdfParse == "Invalid PDF structure"
MsgUpsert   == "Failed to connect to chromadb"
MsgUpsertLengths == "ids, embeddings, metadatas, and documents must all be the same length"

----------------------------------------------------------------------------
(* src/lib/ingestion.ts *)

PdfNames == {NameA, NameB}

\* fs.readdir: the names present, in some order
Listings ==
    LET present == {f \in Names : dir[f] # Absent}
    IN  {l \in [1..Cardinality(present) -> present] :
            \A a, b \in 1..Cardinality(present) : l[a] = l[b] => a = b}

\* .filter(file => file.endsWith('.pdf'))  (line 100)
PdfFilter(listing) == SelectSeq(listing, LAMBDA f : EndsWith(f, PdfExt))

\* `typeof pdf === 'function'` (line 42): the import is callable
pdfIsFunction == TRUE

MsgPdfNotCallable ==
    "PDF parsing failed: The 'pdf-parse' module did not export a callable function correctly."

\* extractTextFromPdf (lines 39-49); readOk: fs.readFile succeeds
extractTextFromPdf(doc, readOk) ==
    IF ~readOk \/ doc = Absent
    THEN [ok |-> FALSE, raised |-> "read", text |-> <<>>, message |-> MsgReadFile]
    ELSE IF ~pdfIsFunction
    THEN [ok |-> FALSE, raised |-> "parse", text |-> <<>>, message |-> MsgPdfNotCallable]
    ELSE IF doc.kind = "corrupt"
    THEN [ok |-> FALSE, raised |-> "parse", text |-> <<>>, message |-> MsgPdfParse]
    ELSE [ok |-> TRUE, raised |-> "none", text |-> Trim(RawText(doc)), message |-> ""]

\* Array.prototype.slice(from, to), 0-based, end exclusive
Slice(s, from, to) == SubSeq(s, from + 1, Min(to, Len(s)))

\* mutant: the batch is one chunk short
BatchOf_OneShort(allChunks, from) == Slice(allChunks, from, from + BATCH_SIZE - 1)

\* allChunks.slice(i, i + BATCH_SIZE)  (line 63)
BatchOf(allChunks, from) == Slice(allChunks, from, from + BATCH_SIZE)

\* mutant: an empty list of embeddings is not taken for a failure
EmbeddingsMissing_NoLengthCheck(response) == ~response.hasEmbeddings

\* `!response.embeddings || response.embeddings.length === 0`  (line 73)
EmbeddingsMissing(response) ==
    \/ ~response.hasEmbeddings
    \/ Len(response.embeddings) = 0

\* allEmbeddings.concat(response.embeddings.map(e => e.values))  (lines 77-78)
ConcatEmbeddings(all, response) ==
    all \o [k \in 1..Len(response.embeddings) |-> response.embeddings[k].values]

\* mutant: ids are numbered from 1
IdOf_OneBased(fileName, k) == fileName \o "-" \o ToDecimal(k + 1)

\* mutant: ids are numbered by the running chunk count of the run
IdOf_RunningCount(fileName, k) == fileName \o "-" \o ToDecimal(chunkCount + k)

\* `${fileName}-${i}`  (line 131)
IdOf(fileName, k) == fileName \o "-" \o ToDecimal(k)

\* { source: fileName, chunk_index: i }  (lines 132-135)
MetadataOf(fileName, k) == [source |-> fileName, chunk_index |-> k]

\* the argument of collection.upsert (lines 127-143)
UpsertCall(fileName, chunkList, embeddings) ==
    [file       |-> fileName,
     ids        |-> [k \in 1..Len(chunkList) |-> IdOf(fileName, k - 1)],
     embeddings |-> embeddings,
     documents  |-> chunkList,
     metadatas  |-> [k \in 1..Len(chunkList) |-> MetadataOf(fileName, k - 1)]]

\* the Chroma client rejects a record set whose lists differ in length
UpsertAccepted(call) ==
    /\ Len(call.embeddings) = Len(call.ids)
    /\ Len(call.documents) = Len(call.ids)
    /\ Len(call.metadatas) = Len(call.ids)

\* mutant: the records of the file are replaced as a whole
ApplyUpsert_ReplaceFile(st, call) ==
    {r \in st : r.metadata.source # call.file}
    \cup {[id        |-> call.ids[k],
           embedding |-> call.embeddings[k],
           document  |-> call.documents[k],
           metadata  |-> call.metadatas[k]] : k \in 1..Len(call.ids)}

\* upsert: insert or overwrite by id
ApplyUpsert(st, call) ==
    LET newIds == {call.ids[k] : k \in 1..Len(call.ids)}
    IN  {r \in st : r.id \notin newIds}
        \cup {[id        |-> call.ids[k],
               embedding |-> call.embeddings[k],
               document  |-> call.documents[k],
               metadata  |-> call.metadatas[k]] : k \in 1..Len(call.ids)}

MsgNoPdf == "No PDF files found in the directory: documents"
MsgChroma ==
    "Failed to connect to ChromaDB. Ensure the service is running at http://localhost:8000"
MsgEmbed ==
    "Failed to call Gemini Embedding API. Check API Key and network connection."

\* return { success: true, count: chunkCount }  (line 149)
SuccessResult(count) == [success |-> TRUE, count |-> count]

\* mutant: the failure reports the chunks counted so far
FailureResult_KeepsCount(message) ==
    [success |-> FALSE, count |-> chunkCount, error |-> message]

\* return { success: false, count: 0, error: e.message }  (lines 102, 153)
FailureResult(message) == [success |-> FALSE, count |-> 0, error |-> message]

\* the catch block of ingestDocuments (lines 151-154), and the early return
\* of line 102
Fail(kind, message) ==
    /\ pc' = "done"
    /\ result' = <<FailureResult(message)>>
    /\ failure' = kind

\* the end of one iteration of `for (const fileName of files)`: the next
\* file, or the return of line 149
Continue(count) ==
    /\ chunkCount' = count
    /\ failure' = failure
    /\ IF idx < Len(files)
       THEN idx' = idx + 1 /\ pc' = "extract" /\ result' = result
       ELSE idx' = idx /\ pc' = "done" /\ result' = <<SuccessResult(count)>>

UpsertedIds(calls) ==
    UNION {{calls[c].ids[k] : k \in 1..Len(calls[c].ids)} : c \in 1..Len(calls)}

\* every embedContent call logged was answered as the embedding model
\* answers: one vector per text, in input order
ContractKept(calls) ==
    \A c \in 1..Len(calls) :
        /\ ~calls[c].response.raised
        /\ calls[c].response.hasEmbeddings
        /\ calls[c].response.embeddings =
              [k \in 1..Len(calls[c].batch) |-> [values |-> EmbedVec(calls[c].batch[k])]]

\* a call of ingestDocuments begins (lines 90-97)
IngestStart ==
    /\ pc \in {"idle", "done"}
    /\ pc' = "connect"
    /\ files' = <<>> /\ idx' = 0 /\ chunks' = <<>> /\ i' = 0
    /\ allEmbeddings' = <<>> /\ inFlight' = <<>> /\ chunkCount' = 0
    /\ result' = <<>> /\ reads' = <<>> /\ embedCalls' = <<>> /\ upserts' = <<>>
    /\ failure' = "none"
    /\ storeAtStart' = store
    /\ prevOk' = (pc = "done" /\ result[1].success /\ ContractKept(embedCalls))
    /\ prevIds' = IF prevOk' THEN UpsertedIds(upserts) ELSE {}
    /\ UNCHANGED <<dir, store, chatVars>>

\* getOrCreateCollection (lines 22-33, 98)
GetOrCreateCollection ==
    /\ pc = "connect"
    /\ \E ok \in BOOLEAN :
          IF ok THEN pc' = "list" /\ UNCHANGED <<result, failure>>
                ELSE Fail("connect", MsgChroma)
    /\ UNCHANGED <<dir, store, files, idx, chunks, i, allEmbeddings, inFlight,
                   chunkCount, reads, embedCalls, upserts, storeAtStart,
                   prevOk, prevIds, chatVars>>

\* fs.readdir raises (line 100)
ListFilesFails ==
    /\ pc = "list"
    /\ Fail("readdir", MsgReaddir)
    /\ UNCHANGED <<dir, store, files, idx, chunks, i, allEmbeddings, inFlight,
                   chunkCount, reads, embedCalls, upserts, storeAtStart,
                   prevOk, prevIds, chatVars>>

\* fs.readdir, the filter, and the check for no PDF (lines 100-105)
ListFiles ==
    /\ pc = "list"
    /\ \E listing \in Listings :
          /\ files' = PdfFilter(listing)
          /\ IF Len(files') = 0
             THEN Fail("nopdf", MsgNoPdf) /\ idx' = idx
             ELSE pc' = "extract" /\ idx' = 1 /\ UNCHANGED <<result, failure>>
    /\ chunkCount' = 0
    /\ UNCHANGED <<dir, store, chunks, i, allEmbeddings, inFlight,
                   reads, embedCalls, upserts, storeAtStart,
                   prevOk, prevIds, chatVars>>

\* extractTextFromPdf raises (line 111): the error reaches the catch of line 151
ExtractFails ==
    /\ pc = "extract"
    /\ \E readOk \in BOOLEAN :
          LET r == extractTextFromPdf(dir[files[idx]], readOk)
          IN  /\ ~r.ok
              /\ Fail(r.raised, r.message)
    /\ reads' = Append(reads, files[idx])
    /\ UNCHANGED <<dir, store, files, idx, chunks, i, allEmbeddings, inFlight,
                   chunkCount, embedCalls, upserts, storeAtStart,
                   prevOk, prevIds, chatVars>>

\* mutant: `break` in place of `continue`
SkipEmptyText_Break ==
    /\ pc = "extract"
    /\ LET r == extractTextFromPdf(dir[files[idx]], TRUE)
       IN  /\ r.ok
           /\ Len(r.text) = 0
    /\ pc' = "done"
    /\ result' = <<SuccessResult(chunkCount)>>
    /\ reads' = Append(reads, files[idx])
    /\ UNCHANGED <<dir, store, files, idx, chunks, i, allEmbeddings, inFlight,
                   chunkCount, failure, embedCalls, upserts, storeAtStart,
                   prevOk, prevIds, chatVars>>

\* the extracted text is empty: `continue` (lines 113-116)
SkipEmptyText ==
    /\ pc = "extract"
    /\ LET r == extractTextFromPdf(dir[files[idx]], TRUE)
       IN  /\ r.ok
           /\ Len(r.text) = 0
    /\ Continue(chunkCount)
    /\ reads' = Append(reads, files[idx])
    /\ UNCHANGED <<dir, store, files, chunks, i, allEmbeddings, inFlight,
                   embedCalls, upserts, storeAtStart, prevOk, prevIds, chatVars>>

\* the splitter yields no chunk: `continue` (lines 118-123)
SkipNoChunks ==
    /\ pc = "extract"
    /\ LET r == extractTextFromPdf(dir[files[idx]], TRUE)
       IN  /\ r.ok
           /\ Len(r.text) # 0
           /\ Len(splitText(r.text)) = 0
    /\ Continue(chunkCount)
    /\ reads' = Append(reads, files[idx])
    /\ UNCHANGED <<dir, store, files, chunks, i, allEmbeddings, inFlight,
                   embedCalls, upserts, storeAtStart, prevOk, prevIds, chatVars>>

\* text and chunks obtained; generateEmbeddings is entered (lines 111-125, 56-62)
BeginEmbedding ==
    /\ pc = "extract"
    /\ LET r == extractTextFromPdf(dir[files[idx]], TRUE)
       IN  /\ r.ok
           /\ Len(r.text) # 0
           /\ Len(splitText(r.text)) # 0
           /\ chunks' = splitText(r.text)
    /\ i' = 0
    /\ allEmbeddings' = <<>>
    /\ pc' = "embed_send"
    /\ reads' = Append(reads, files[idx])
    /\ UNCHANGED <<dir, store, files, idx, inFlight, chunkCount, result,
                   embedCalls, upserts, failure, storeAtStart, prevOk, prevIds,
                   chatVars>>

\* one iteration of the batch loop, up to the await (lines 62-71)
SendBatch ==
    /\ pc = "embed_send"
    /\ i < Len(chunks)
    /\ inFlight' = Append(inFlight, [offset |-> i, batch |-> BatchOf(chunks, i)])
    /\ pc' = "embed_wait"
    /\ UNCHANGED <<dir, store, files, idx, chunks, i, allEmbeddings, chunkCount,
                   result, reads, embedCalls, upserts, failure, storeAtStart,
                   prevOk, prevIds, chatVars>>

\* the embedding call raises or brings no embeddings: the catch of line 80
\* rethrows, and the catch of line 151 returns the failure
EmbedBatchFails ==
    /\ pc = "embed_wait"
    /\ \E response \in EmbedResponses(Head(inFlight).batch) :
          /\ response.raised \/ EmbeddingsMissing(response)
          /\ embedCalls' = Append(embedCalls,
                [file |-> files[idx], offset |-> Head(inFlight).offset,
                 batch |-> Head(inFlight).batch, response |-> response])
    /\ inFlight' = Tail(inFlight)
    /\ Fail("embed", MsgEmbed)
    /\ UNCHANGED <<dir, store, files, idx, chunks, i, allEmbeddings, chunkCount,
                   reads, upserts, storeAtStart, prevOk, prevIds, chatVars>>

\* the embedding call brings vectors (lines 73-78), then the loop goes on or
\* generateEmbeddings returns (lines 62, 86-87)
EmbedBatchReturns ==
    /\ pc = "embed_wait"
    /\ \E response \in EmbedResponses(Head(inFlight).batch) :
          /\ ~response.raised
          /\ ~EmbeddingsMissing(response)
          /\ embedCalls' = Append(embedCalls,
                [file |-> files[idx], offset |-> Head(inFlight).offset,
                 batch |-> Head(inFlight).batch, response |-> response])
          /\ allEmbeddings' = ConcatEmbeddings(allEmbeddings, response)
    /\ inFlight' = Tail(inFlight)
    /\ i' = i + BATCH_SIZE
    /\ pc' = IF i' < Len(chunks) THEN "embed_send" ELSE "upsert"
    /\ UNCHANGED <<dir, store, files, idx, chunks, chunkCount, result, reads,
                   upserts, failure, storeAtStart, prevOk, prevIds, chatVars>>

\* collection.upsert raises (line 138)
UpsertFails ==
    /\ pc = "upsert"
    /\ LET call == UpsertCall(files[idx], chunks, allEmbeddings)
       IN  /\ upserts' = Append(upserts, call)
           /\ \/ ~UpsertAccepted(call) /\ Fail("upsert", MsgUpsertLengths)
              \/ UpsertAccepted(call) /\ Fail("upsert", MsgUpsert)
    /\ UNCHANGED <<dir, store, files, idx, chunks, i, allEmbeddings, inFlight,
                   chunkCount, reads, embedCalls, storeAtStart, prevOk, prevIds,
                   chatVars>>

\* collection.upsert succeeds; the count grows (lines 127-146)
Upsert ==
    /\ pc = "upsert"
    /\ LET call == UpsertCall(files[idx], chunks, allEmbeddings)
       IN  /\ UpsertAccepted(call)
           /\ upserts' = Append(upserts, call)
           /\ store' = ApplyUpsert(store, call)
    /\ Continue(chunkCount + Len(chunks))
    /\ UNCHANGED <<dir, files, chunks, i, allEmbeddings, inFlight,
                   reads, embedCalls, storeAtStart, prevOk, prevIds, chatVars>>

\* the caller has taken the result of line 102, 149 or 153: no run is going on
IngestReturned ==
    /\ pc = "done"
    /\ pc' = "idle"
    /\ files' = <<>> /\ idx' = 0 /\ chunks' = <<>> /\ i' = 0
    /\ allEmbeddings' = <<>> /\ inFlight' = <<>> /\ chunkCount' = 0
    /\ result' = <<>> /\ reads' = <<>> /\ embedCalls' = <<>> /\ upserts' = <<>>
    /\ failure' = "none"
    /\ storeAtStart' = store
    /\ prevOk' = FALSE
    /\ prevIds' = {}
    /\ UNCHANGED <<dir, store, chatVars>>

\* between two runs somebody replaces, adds or removes a PDF in the
\* documents directory (line 9)
ChangeDir ==
    /\ pc = "idle"
    /\ \E f \in PdfNames, d \in Documents :
          /\ d # dir[f]
          /\ dir' = [dir EXCEPT ![f] = d]
    /\ UNCHANGED <<store, pc, files, idx, chunks, i, allEmbeddings, inFlight,
                   chunkCount, result, reads, embedCalls, upserts, failure,
                   storeAtStart, prevOk, prevIds, chatVars>>

----------------------------------------------------------------------------
(* src/unnamed/part_000: the chat route *)

\* JavaScript values, as far as the handler tells them apart
Undefined   == [t |-> "undefined", s |-> "", n |-> 0, b |-> FALSE]
Null        == [t |-> "null",      s |-> "", n |-> 0, b |-> FALSE]
Str(x)      == [t |-> "string",    s |-> x,  n |-> 0, b |-> FALSE]
Num(x)      == [t |-> "number",    s |-> "", n |-> x, b |-> FALSE]
Bool(x)     == [t |-> "boolean",   s |-> "", n |-> 0, b |-> x]

QueryValues == {Null, Str(""), Str("hi"), Str("what is the leave policy?"),
                Num(0), Num(7), Bool(FALSE), Bool(TRUE)}

\* A request body: text that is not JSON, or a JSON value: null, a value
\* that is no object (a number, a string, an array), or an object with or
\* without a `query` field.
NotJson        == [json |-> FALSE, kind |-> "none",   hasQuery |-> FALSE, query |-> Undefined]
JsonNull       == [json |-> TRUE,  kind |-> "null",   hasQuery |-> FALSE, query |-> Undefined]
JsonScalar     == [json |-> TRUE,  kind |-> "scalar", hasQuery |-> FALSE, query |-> Undefined]
JsonObject     == [json |-> TRUE,  kind |-> "object", hasQuery |-> FALSE, query |-> Undefined]
JsonQuery(q)   == [json |-> TRUE,  kind |-> "object", hasQuery |-> TRUE,  query |-> q]

Bodies == {NotJson, JsonNull, JsonScalar, JsonObject}
          \cup {JsonQuery(q) : q \in QueryValues}

MsgSyntaxError == "Unexpected token in JSON"
MsgTypeError   == "Cannot destructure property 'query' of null"
RagMessages    == {"Failed to query ChromaDB", "Generation failed"}
Streams        == {<<"answer">>, <<"ans", "wer">>}

\* `const { query } = await req.json()`  (line 7)
ReadQuery(b) ==
    IF ~b.json THEN [ok |-> FALSE, query |-> Undefined, message |-> MsgSyntaxError]
    ELSE IF b.kind = "null"
    THEN [ok |-> FALSE, query |-> Undefined, message |-> MsgTypeError]
    ELSE IF b.kind = "object" /\ b.hasQuery
    THEN [ok |-> TRUE, query |-> b.query, message |-> ""]
    ELSE [ok |-> TRUE, query |-> Undefined, message |-> ""]

\* mutant: only an absent query counts as missing
Falsy_UndefinedOnly(v) == v.t = "undefined"

\* `!query`  (line 9)
Falsy(v) ==
    \/ v.t \in {"undefined", "null"}
    \/ v.t = "string" /\ v.s = ""
    \/ v.t = "number" /\ v.n = 0
    \/ v.t = "boolean" /\ ~v.b

NoStream == <<>>

\* NextResponse.json({ error }, { status: 400 })  (lines 10-13)
MissingQueryResponse ==
    [status |-> 400, type |-> "application/json", chunked |-> FALSE,
     error |-> "Missing query parameter in request body.",
     hasDetails |-> FALSE, details |-> "", stream |-> NoStream]

\* new NextResponse(stream, { headers, status: 200 })  (lines 20-26)
StreamResponse(stream) ==
    [status |-> 200, type |-> "text/plain; charset=utf-8", chunked |-> TRUE,
     error |-> "", hasDetails |-> FALSE, details |-> "", stream |-> stream]

\* NextResponse.json({ error, details }, { status: 500 })  (lines 31-34)
ErrorResponse(message) ==
    [status |-> 500, type |-> "application/json", chunked |-> FALSE,
     error |-> "An error occurred during RAG processing.",
     hasDetails |-> TRUE, details |-> message, stream |-> NoStream]

\* a request arrives and POST is invoked (line 5)
ChatRequest ==
    /\ chatPc = "idle"
    /\ served < MaxRequests
    /\ \E b \in Bodies : body' = <<b>>
    /\ chatPc' = "json"
    /\ query' = Undefined
    /\ ragCalls' = 0
    /\ responses' = <<>>
    /\ UNCHANGED <<served, ingestVars>>

\* req.json() or the destructuring raises: the catch answers 500 (lines 7, 28-34)
ChatBodyFails ==
    /\ chatPc = "json"
    /\ ~ReadQuery(body[1]).ok
    /\ responses' = Append(responses, ErrorResponse(ReadQuery(body[1]).message))
    /\ chatPc' = "responded"
    /\ UNCHANGED <<body, query, ragCalls, served, ingestVars>>

\* `if (!query)` answers 400 (lines 9-14)
ChatMissingQuery ==
    /\ chatPc = "json"
    /\ ReadQuery(body[1]).ok
    /\ Falsy(ReadQuery(body[1]).query)
    /\ query' = ReadQuery(body[1]).query
    /\ responses' = Append(responses, MissingQueryResponse)
    /\ chatPc' = "responded"
    /\ UNCHANGED <<body, ragCalls, served, ingestVars>>

\* runRAGChat(query) is called (lines 16-18)
ChatCallRag ==
    /\ chatPc = "json"
    /\ ReadQuery(body[1]).ok
    /\ ~Falsy(ReadQuery(body[1]).query)
    /\ query' = ReadQuery(body[1]).query
    /\ ragCalls' = ragCalls + 1
    /\ chatPc' = "rag"
    /\ UNCHANGED <<body, responses, served, ingestVars>>

\* runRAGChat returns a stream: 200 (lines 18-26)
ChatRagReturns ==
    /\ chatPc = "rag"
    /\ \E stream \in Streams : responses' = Append(responses, StreamResponse(stream))
    /\ chatPc' = "responded"
    /\ UNCHANGED <<body, query, ragCalls, served, ingestVars>>

\* runRAGChat raises: the catch answers 500 (lines 18, 28-34)
ChatRagFails ==
    /\ chatPc = "rag"
    /\ \E message \in RagMessages : responses' = Append(responses, ErrorResponse(message))
    /\ chatPc' = "responded"
    /\ UNCHANGED <<body, query, ragCalls, served, ingestVars>>

\* the invocation of POST is over; the handler waits for the next request
ChatDone ==
    /\ chatPc = "responded"
    /\ chatPc' = "idle"
    /\ served' = served + 1
    /\ UNCHANGED <<body, query, ragCalls, responses, ingestVars>>

----------------------------------------------------------------------------
(* Specifications *)

ChatInit ==
    /\ chatPc = "idle"
    /\ body = <<>>
    /\ query = Undefined
    /\ ragCalls = 0
    /\ responses = <<>>
    /\ served = 0

IngestIdle ==
    /\ store = {}
    /\ pc = "idle"
    /\ files = <<>> /\ idx = 0 /\ chunks = <<>> /\ i = 0
    /\ allEmbeddings = <<>> /\ inFlight = <<>> /\ chunkCount = 0
    /\ result = <<>> /\ reads = <<>> /\ embedCalls = <<>> /\ upserts = <<>>
    /\ failure = "none"
    /\ storeAtStart = {}
    /\ prevOk = FALSE
    /\ prevIds = {}

Directories == {d \in [Names -> Documents] : d[NameT] = WordDoc(ShortLen)}

\* ingestion runs, one after the other, over a directory that changes
\* between runs
Init ==
    /\ dir \in Directories
    /\ IngestIdle
    /\ ChatInit

Next ==
    \/ IngestStart
    \/ GetOrCreateCollection
    \/ ListFilesFails
    \/ ListFiles
    \/ ExtractFails
    \/ SkipEmptyText
    \/ SkipNoChunks
    \/ BeginEmbedding
    \/ SendBatch
    \/ EmbedBatchFails
    \/ EmbedBatchReturns
    \/ UpsertFails
    \/ Upsert
    \/ IngestReturned
    \/ ChangeDir

Spec == Init /\ [][Next]_vars

\* generateEmbeddings on the chunks of one file of 1..MaxChunks chunks: the
\* state of ingestDocuments at line 125 in its first run, a.pdf being the
\* only PDF
InitEmbed ==
    /\ \E n \in 1..MaxChunks :
          /\ dir = [f \in Names |-> IF f = NameA THEN WordDoc(n)
                                    ELSE IF f = NameB THEN Absent
                                    ELSE WordDoc(ShortLen)]
          /\ chunks = splitText(Trim(RawText(WordDoc(n))))
    /\ store = {}
    /\ pc = "embed_send"
    /\ files = <<NameA>> /\ idx = 1 /\ i = 0
    /\ allEmbeddings = <<>> /\ inFlight = <<>> /\ chunkCount = 0
    /\ result = <<>> /\ reads = <<NameA>> /\ embedCalls = <<>> /\ upserts = <<>>
    /\ failure = "none"
    /\ storeAtStart = {}
    /\ prevOk = FALSE
    /\ prevIds = {}
    /\ ChatInit

NextEmbed ==
    \/ SendBatch
    \/ EmbedBatchFails
    \/ EmbedBatchReturns

SpecEmbed == InitEmbed /\ [][NextEmbed]_vars

\* the chat route serving MaxRequests requests, one after the other
InitChat ==
    /\ dir = [f \in Names |-> IF f = NameT THEN WordDoc(ShortLen) ELSE Absent]
    /\ IngestIdle
    /\ ChatInit

NextChat ==
    \/ ChatRequest
    \/ ChatBodyFails
    \/ ChatMissingQuery
    \/ ChatCallRag
    \/ ChatRagReturns
    \/ ChatRagFails
    \/ ChatDone

SpecChat == InitChat /\ [][NextChat]_vars

----------------------------------------------------------------------------
(* Properties *)

\* the chunks the splitter produces for file f of the directory
ChunksOfFile(f) == splitText(Trim(RawText(dir[f])))

\* the file's text is empty after trim, or the splitter gives no chunk
YieldsNothing(f) ==
    /\ dir[f].kind \notin {"absent", "corrupt"}
    /\ \/ Len(Trim(RawText(dir[f]))) = 0
       \/ Len(ChunksOfFile(f)) = 0

RECURSIVE SumOfDocuments(_)
SumOfDocuments(calls) ==
    IF calls = <<>> THEN 0
    ELSE Len(Head(calls).documents) + SumOfDocuments(Tail(calls))

RECURSIVE FlattenResponses(_)
FlattenResponses(calls) ==
    IF calls = <<>> THEN <<>>
    ELSE [k \in 1..Len(Head(calls).response.embeddings) |->
             Head(calls).response.embeddings[k].values]
         \o FlattenResponses(Tail(calls))

RECURSIVE FlattenBatches(_)
FlattenBatches(calls) ==
    IF calls = <<>> THEN <<>> ELSE Head(calls).batch \o FlattenBatches(Tail(calls))

Returned == pc = "done" /\ Len(result) = 1
Succeeded == Returned /\ result[1].success
Failed == Returned /\ ~result[1].success

\* C1: every upsert issued carries equally many documents, embeddings, ids
\* and metadata entries, and a batch answered with a number of vectors other
\* than the number of chunks submitted ends the run in a failure result.
C1_UpsertCountsEqual ==
    /\ \A c \in 1..Len(upserts) :
          /\ Len(upserts[c].embeddings) = Len(upserts[c].documents)
          /\ Len(upserts[c].ids) = Len(upserts[c].documents)
          /\ Len(upserts[c].metadatas) = Len(upserts[c].documents)
    /\ \A c \in 1..Len(embedCalls) :
          (/\ ~embedCalls[c].response.raised
           /\ Len(embedCalls[c].response.embeddings) # Len(embedCalls[c].batch)
           /\ pc = "done")
          => Failed

\* C2: for every file upserted, with n >= 1 chunks from the splitter, the
\* ids are the n distinct strings `{filename}-{i}`, i = 0..n-1, in order, and
\* the i-th metadata entry is {source: filename, chunk_index: i}.
C2_IdsAndMetadata ==
    \A c \in 1..Len(upserts) :
        LET u == upserts[c]
            n == Len(ChunksOfFile(u.file))
        IN  /\ n >= 1
            /\ Len(u.ids) = n
            /\ Len(u.metadatas) = n
            /\ u.documents = ChunksOfFile(u.file)
            /\ \A k \in 1..n :
                  /\ u.ids[k] = u.file \o "-" \o ToString(k - 1)
                  /\ u.metadatas[k].source = u.file
                  /\ u.metadatas[k].chunk_index = k - 1
            /\ Cardinality({u.ids[k] : k \in 1..n}) = n

C2_Witness ==
    /\ Succeeded
    /\ \E c \in 1..Len(upserts) : Len(upserts[c].ids) > BATCH_SIZE

\* C3: a successful run that directly follows a successful run over the same
\* directory, the embedding service answering both as the same function of
\* the text, upserts the same set of ids and leaves the store's records as
\* the first run left them.
C3_Idempotent ==
    (Succeeded /\ prevOk /\ ContractKept(embedCalls)) =>
        /\ UpsertedIds(upserts) = prevIds
        /\ store = storeAtStart

C3_Witness ==
    /\ Succeeded
    /\ prevOk
    /\ ContractKept(embedCalls)
    /\ Len(upserts) = 2
    /\ \E c \in 1..2 : Len(upserts[c].ids) > BATCH_SIZE

\* C4: when pdf-parse raises on an unparseable file, the file is skipped and
\* the run goes on: the run is never ended by the parse error, and with no
\* other call failing it reads every file of the listing and returns success.
C4_ContentErrorRecoverable ==
    /\ failure # "parse"
    /\ \A k \in 1..Len(reads) :
          (dir[reads[k]] = Corrupt /\ pc = "done" /\ failure = "none")
          => (Succeeded /\ Len(reads) = Len(files))

\* C5: a file whose trimmed text is empty or whose splitter output has no
\* chunk gets no embedding call and no upsert and adds nothing to the count,
\* the files after it are still processed, and a run in which every call
\* succeeds returns success with count = the sum of the chunk counts of the
\* files upserted.
C5_EmptyFilesSkipped ==
    /\ \A k \in 1..Len(reads) :
          YieldsNothing(reads[k]) =>
             /\ \A c \in 1..Len(embedCalls) : embedCalls[c].file # reads[k]
             /\ \A c \in 1..Len(upserts) : upserts[c].file # reads[k]
             /\ (k = Len(reads) /\ pc # "done") => (pc = "extract" /\ idx = k + 1)
             /\ (k = Len(reads) /\ pc = "done" /\ failure # "read") =>
                   (Succeeded /\ k = Len(files))
    /\ (pc = "done" /\ failure = "none") => Succeeded
    /\ Succeeded =>
          /\ result[1].count = SumOfDocuments(upserts)
          /\ Len(reads) = Len(files)
          /\ \A k \in 1..Len(files) :
                (\E c \in 1..Len(upserts) : upserts[c].file = files[k])
                   <=> ~YieldsNothing(files[k])

C5_Witness ==
    /\ Succeeded
    /\ Len(reads) = 2
    /\ YieldsNothing(reads[1])
    /\ result[1].count > 0

\* C6: an embedding call that raises or brings no embeddings is the last
\* call of the run: it is not repeated, no batch follows it, no upsert is
\* issued for its file or after it, no later file is read, and the run
\* returns success = false.
C6_EmbedFailureAborts ==
    \A c \in 1..Len(embedCalls) :
        LET call == embedCalls[c]
        IN  (\/ call.response.raised
             \/ ~call.response.hasEmbeddings
             \/ Len(call.response.embeddings) = 0)
            => /\ c = Len(embedCalls)
               /\ inFlight = <<>>
               /\ Failed
               /\ reads[Len(reads)] = call.file
               /\ \A u \in 1..Len(upserts) :
                     /\ upserts[u].file # call.file
                     /\ \E k \in 1..(Len(reads) - 1) : reads[k] = upserts[u].file
               /\ \A d \in 1..(c - 1) :
                     embedCalls[d].file = call.file
                        => embedCalls[d].offset < call.offset

C6_Witness ==
    /\ Failed
    /\ failure = "embed"
    /\ Len(embedCalls) = 2
    /\ embedCalls[1].file = embedCalls[2].file
    /\ Len(reads) < Len(files)

\* C7: every failure of a run, and a directory without PDF, ends in the
\* returned result {success: false, count: 0, error: non-empty}; without PDF
\* no extraction, embedding or upsert call is made; the count is 0 also when
\* files upserted earlier in the run remain in the store.
C7_FailureResult ==
    /\ pc = "done" => Len(result) = 1
    /\ failure # "none" =>
          /\ Failed
          /\ result[1].count = 0
          /\ result[1].error # ""
    /\ Failed => failure # "none"
    /\ failure = "nopdf" =>
          /\ reads = <<>>
          /\ embedCalls = <<>>
          /\ inFlight = <<>>
          /\ upserts = <<>>
          /\ store = storeAtStart

C7_Witness ==
    /\ Failed
    /\ failure \in {"read", "parse", "embed", "upsert"}
    /\ chunkCount > 0
    /\ store # storeAtStart

\* C8: with every call answered, generateEmbeddings makes ceil(C/B) calls,
\* never two in flight; the k-th covers the min(B, C - k*B) chunks from index
\* k*B on, so the batches in call order are the chunks, and the vectors
\* returned are the per-call results concatenated in call order.
C8_Batching ==
    LET C == Len(chunks)
        covers(req, k) ==
            /\ req.offset = k * BATCH_SIZE
            /\ Len(req.batch) = Min(BATCH_SIZE, C - k * BATCH_SIZE)
            /\ \A j \in 1..Len(req.batch) : req.batch[j] = chunks[k * BATCH_SIZE + j]
    IN  /\ Len(inFlight) <= 1
        /\ \A c \in 1..Len(embedCalls) : covers(embedCalls[c], c - 1)
        /\ \A c \in 1..Len(inFlight) : covers(inFlight[c], Len(embedCalls))
        /\ allEmbeddings =
              FlattenResponses(IF pc = "done"
                               THEN SubSeq(embedCalls, 1, Len(embedCalls) - 1)
                               ELSE embedCalls)
        /\ pc = "upsert" =>
              /\ Len(embedCalls) = (C + BATCH_SIZE - 1) \div BATCH_SIZE
              /\ FlattenBatches(embedCalls) = chunks

C8_Witness ==
    /\ pc = "upsert"
    /\ Len(embedCalls) = 3
    /\ Len(allEmbeddings) = Len(chunks)
    /\ Len(embedCalls[3].batch) = 1

\* C9 as stated: one response per request; a JSON body without `query` field
\* (a `query` of null counted as none) gets 400 with an error and no call of the routine; a JSON body with a
\* `query` field gets one call of the routine and 200 with the stream when it
\* succeeds; a failure (a body that does not parse or cannot be destructured,
\* the routine raising) gets 500 with error and details.
C9_QueryFieldDecides ==
    chatPc = "responded" =>
        LET b == body[1]
            r == responses[1]
            withQuery == b.json /\ b.hasQuery /\ b.query.t # "null"
        IN  /\ Len(responses) = 1
            /\ (b.json /\ b.kind # "null" /\ ~withQuery) =>
                  (r.status = 400 /\ r.error # "" /\ ragCalls = 0)
            /\ withQuery =>
                  /\ ragCalls = 1
                  /\ \/ r.status = 200 /\ r.chunked /\ r.stream \in Streams
                     \/ r.status = 500 /\ r.error # "" /\ r.hasDetails
            /\ (~b.json \/ b.kind = "null") =>
                  (r.status = 500 /\ r.error # "" /\ r.hasDetails)

\* C9 amended: one response per request; a JSON body other than null whose
\* `query` is absent or falsy (null, "", 0, false) gets 400 with an error and
\* no call of the routine; a JSON body whose `query` is truthy gets one call
\* of the routine and, when it succeeds, 200 with the stream as chunked
\* text/plain; a failure (a body that is not JSON or is JSON null, the
\* routine raising) gets 500 with error and details.
C9_TruthyQueryDecides ==
    LET truthy(b) ==
            /\ b.json /\ b.kind = "object" /\ b.hasQuery
            /\ b.query \notin {Null, Str(""), Num(0), Bool(FALSE), Undefined}
        broken(b) == ~b.json \/ b.kind = "null"
    IN  /\ Len(responses) <= 1
        /\ ragCalls <= 1
        /\ chatPc = "rag" => (truthy(body[1]) /\ ragCalls = 1 /\ responses = <<>>)
        /\ chatPc = "responded" =>
              LET b == body[1]
                  r == responses[1]
              IN  /\ Len(responses) = 1
                  /\ r.status \in {200, 400, 500}
                  /\ (~broken(b) /\ ~truthy(b)) =>
                        /\ r.status = 400 /\ r.error # "" /\ ~r.hasDetails
                        /\ ragCalls = 0
                  /\ truthy(b) =>
                        /\ ragCalls = 1
                        /\ \/ /\ r.status = 200 /\ r.chunked
                              /\ r.type = "text/plain; charset=utf-8"
                              /\ r.stream \in Streams
                           \/ /\ r.status = 500 /\ r.error # "" /\ r.hasDetails
                              /\ r.details \in RagMessages
                  /\ broken(b) =>
                        /\ r.status = 500 /\ r.error # "" /\ r.hasDetails
                        /\ r.details # ""
                        /\ ragCalls = 0

C9_Witness ==
    /\ chatPc = "responded"
    /\ body[1] = JsonQuery(Str(""))
    /\ responses[1].status = 400
    /\ served >= 1

\* C10: a run only adds or overwrites records: every id in the store when
\* the run started is still there, and a record whose id the run did not
\* upsert (such as `{filename}-{m}` .. `{filename}-{n-1}` when the file
\* shrank from n to m chunks) is still there unchanged.
C10_NeverDeletes ==
    LET upserted == UpsertedIds(upserts)
    IN  /\ {r.id : r \in storeAtStart} \subseteq {r.id : r \in store}
        /\ {r \in storeAtStart : r.id \notin upserted} \subseteq store

C10_Witness ==
    /\ Succeeded
    /\ \E c \in 1..Len(upserts) :
          /\ upserts[c].file = NameA
          /\ Len(upserts[c].ids) = ShortLen
          /\ \E r \in store :
                /\ r.metadata.source = NameA
                /\ r.metadata.chunk_index >= ShortLen
                /\ r.id = NameA \o "-" \o ToString(r.metadata.chunk_index)

====
